---- MODULE Spec2Model ----
(***************************************************************************)
(* Game session controller of the ski game (Game.tsx with the yeti):       *)
(* steering, tree collision, crash recovery, score timer, yeti trigger     *)
(* and yeti catch.                                                         *)
(*                                                                         *)
(* Units.  Lengths are integers in tenths of a world unit (0.8 is 8, the   *)
(* slope half width 4.0 is 40, one steering step 0.1 is 1).  Times are     *)
(* integers in milliseconds.                                               *)
(*                                                                         *)
(* Time.  Date.now() only ever enters the program through the difference   *)
(* Date.now() - lastCrashTime.current, so the model keeps that difference, *)
(* sinceCrash, instead of the two absolute values; it saturates at         *)
(* CRASH_RECOVERY_TIME, beyond which the program cannot tell values apart. *)
(* A pending setTimeout/setInterval is the time remaining until it fires.  *)
(* React state updates and the effects that depend on them are applied in  *)
(* the step that issues them.                                              *)
(***************************************************************************)
EXTENDS Integers, Sequences, FiniteSets, TLC

\* ---- program constants -------------------------------------------------
COLLISION_DISTANCE == 8
COLLISION_Z_THRESHOLD == 50
CRASH_RECOVERY_TIME == 2000
YETI_APPEARANCE_SCORE == 50
YETI_ATTACK_DELAY == 5000
YETI_COLLISION_DISTANCE == 12
YETI_Z_COLLISION_DISTANCE == 30
slopeWidth == 100
moveSpeed == 1
GRACE_WINDOW == 500
SCORE_PERIOD == 100
WARNING_TIME == 3000
YETI_SPAWN_Z == -1200
\* ObstacleTree, in hundredths of a world unit.
SLOPE_WIDTH == 1000
SLOPE_SPEED == 40
OBSTACLE_SPAWN_DISTANCE == 12000
EDGE_MARGIN == 400
PASSED_Z == -1500
FAR_Z == 10000
LANES == 5
LANE_WIDTH == 60
LANE_OFFSET == 150
MAX_DELTA == 3
\* Yeti: positions in tenths, blend factors and chaseSpeed in millionths,
\* visibilityHeight in thousandths.
UNIT == 1000000
INITIAL_CHASE_SPEED == 50000
INITIAL_VISIBILITY == -1000
FULL_VISIBILITY == 1000
EMERGE_RATE == 5
APPROACH_Z_OFFSET == 300
APPROACH_X_OFFSET == 20
APPROACH_SPEED == 70000
CHASE_GATE_Z == -400
CHASE_TARGET_Z == -150
CHASE_X_OFFSET == 10
CHASE_X_BLEND == 30000
CHASE_SPEED == 100000
ATTACK_GATE_Z == -70
ATTACK_TARGET_Z == 8
ATTACK_X_BLEND == 150000
ATTACK_SPEED == 180000
SPEED_BLEND == 10000
X_BLEND == 50000

\* ---- bounds of the exploration -----------------------------------------
\* Longest obstacle report sent in the steering specification.
MaxObstacles == 2
\* The session is followed until the score reaches MaxScore.
MaxScore == 101
\* In the session specification the player steers within MaxSteer tenths
\* of the centre line.
MaxSteer == 1
\* Frame deltas are 1..MaxDelta sixtieths of a second.
MaxDelta == 4
\* Math.random() returns k / RandomSteps for k in 0..RandomSteps-1.
RandomSteps == 6

\* ---- inputs -------------------------------------------------------------
NoPosition == [x |-> 0, z |-> 0, none |-> TRUE]

SteerKeys == {"ArrowLeft", "a", "ArrowRight", "d"}
AllKeys == SteerKeys \cup {"Space"}
SessionKeys == {"ArrowLeft"}

\* Reported obstacles: one on each edge of the danger zone, one inside it at
\* the lateral collision distance of the centre line, one dead ahead.
Obstacles ==
  {[x |-> 8, z |-> -50], [x |-> 8, z |-> -10], [x |-> 8, z |-> 0],
   [x |-> 0, z |-> -10]}

RECURSIVE SeqsUpTo(_, _)
SeqsUpTo(S, n) ==
  IF n = 0 THEN {<<>>}
  ELSE LET shorter == SeqsUpTo(S, n - 1)
       IN shorter \cup {Append(s, e) : s \in {t \in shorter : Len(t) = n - 1}, e \in S}

Reports == SeqsUpTo(Obstacles, MaxObstacles)
\* Slope.handleObstaclePositionUpdate always reports exactly one obstacle.
SlopeReports == {<<o>> : o \in Obstacles}
\* The session also receives the empty report.
SessionReports == SlopeReports \cup {<<>>}

YetiXs == {12}
YetiZs == {-30, -29}
YetiReports == [x : YetiXs, z : YetiZs, none : {FALSE}]

VARIABLES
  position,            \* useState(0): skier's horizontal position
  crashed,             \* useState(false)
  score,               \* useState(0)
  lookBehind,          \* useState(false)
  showYeti,            \* useState(false)
  showYetiWarning,     \* useState(false)
  yetiAttacking,       \* useState(false)
  yetiCaught,          \* useState(false)
  initialYetiPosition, \* useRef([0, 0, 0])
  keysPressed,         \* useRef({}): the keys currently held
  obstaclePositions,   \* useRef([]): last accepted obstacle report
  yetiPosition,        \* useRef(null): last yeti report
  sinceCrash,          \* Date.now() - lastCrashTime.current, saturating
  yetiHasAppeared,     \* useRef(false)
  sinceTrigger,        \* ms since the yeti trigger, saturating
  mounted,             \* the Game component is mounted
  recoveryTimers,      \* pending handleCrash timeouts (ms remaining)
  warningTimers,       \* pending warning-hide timeouts (ms remaining)
  attackTimers,        \* pending attack-delay timeouts (ms remaining)
  scoreInterval,       \* ms until the score interval fires next
  collisionLogged      \* the latest collision scan logged "Collision detected!"

\* The obstacle tree (ObstacleTree.tsx), lengths in hundredths.
VARIABLES
  policy,              \* "uniform" or "lanes": which resetTree is in use
  treeX,               \* treeRef.current.position.x
  treeZ,               \* treeRef.current.position.z
  lastPosition,        \* lastPositionRef.current, the position last reported
  zoneReported         \* since the last resetTree a report had z in (-5, 0)

\* The yeti (Yeti.tsx), positions in tenths.  armAngle, jumpHeight, rotationY
\* and the position state only feed the rendering and are left out.
VARIABLES
  attackPhase,         \* useState(AttackPhase.APPROACH)
  yetiX,               \* yetiRef.current.position.x
  yetiZ,               \* yetiRef.current.position.z
  targetPositionX,     \* useRef(initialPosition[0])
  targetPositionZ,     \* useRef(initialPosition[2])
  chaseSpeed,          \* useRef(0.05), in millionths
  visibilityHeight     \* useRef(-1), in thousandths

treeVars == <<policy, treeX, treeZ, lastPosition, zoneReported>>
yetiVars == <<attackPhase, yetiX, yetiZ, targetPositionX, targetPositionZ,
              chaseSpeed, visibilityHeight>>
componentVars == <<treeVars, yetiVars>>

vars == <<componentVars, mounted, position, crashed, score, lookBehind,
          showYeti, showYetiWarning, yetiAttacking, yetiCaught,
          initialYetiPosition, keysPressed, obstaclePositions, yetiPosition,
          sinceCrash, yetiHasAppeared, sinceTrigger, recoveryTimers,
          warningTimers, attackTimers, scoreInterval, collisionLogged>>

\* ---- helpers ------------------------------------------------------------
Abs(n) == IF n < 0 THEN -n ELSE n
Min(a, b) == IF a < b THEN a ELSE b
Max(a, b) == IF a > b THEN a ELSE b

RemoveAt(s, i) == [j \in 1..(Len(s) - 1) |-> IF j < i THEN s[j] ELSE s[j + 1]]
Elapse(s, dt) == [j \in 1..Len(s) |-> s[j] - dt]
Range(s) == {s[j] : j \in 1..Len(s)}

\* All pending deadlines, as remaining times.
Deadlines ==
  {scoreInterval} \cup Range(recoveryTimers) \cup Range(warningTimers)
    \cup Range(attackTimers)
NextDeadline == CHOOSE d \in Deadlines : \A e \in Deadlines : d <= e

\* The components the session specifications take as inputs stay as
\* constructed: useState([0, 0, OBSTACLE_SPAWN_DISTANCE]) and
\* useRef({x: 0, z: OBSTACLE_SPAWN_DISTANCE}).
ComponentsParked ==
  /\ policy = "lanes"
  /\ treeX = 0
  /\ treeZ = OBSTACLE_SPAWN_DISTANCE
  /\ lastPosition = [x |-> 0, z |-> OBSTACLE_SPAWN_DISTANCE]
  /\ zoneReported = FALSE
  /\ attackPhase = "APPROACH"
  /\ yetiX = 0
  /\ yetiZ = 0
  /\ targetPositionX = 0
  /\ targetPositionZ = 0
  /\ chaseSpeed = INITIAL_CHASE_SPEED
  /\ visibilityHeight = INITIAL_VISIBILITY

GameInit ==
  /\ position = 0
  /\ crashed = FALSE
  /\ score = 0
  /\ lookBehind = FALSE
  /\ showYeti = FALSE
  /\ showYetiWarning = FALSE
  /\ yetiAttacking = FALSE
  /\ yetiCaught = FALSE
  /\ initialYetiPosition = <<0, 0, 0>>
  /\ keysPressed = {}
  /\ obstaclePositions = <<>>
  /\ yetiPosition = NoPosition
  /\ sinceCrash = CRASH_RECOVERY_TIME
  /\ yetiHasAppeared = FALSE
  /\ sinceTrigger = YETI_ATTACK_DELAY
  /\ mounted = TRUE
  /\ recoveryTimers = <<>>
  /\ warningTimers = <<>>
  /\ attackTimers = <<>>
  /\ scoreInterval = SCORE_PERIOD
  /\ collisionLogged = FALSE

Init == GameInit /\ ComponentsParked

\* ---- effects ------------------------------------------------------------
\* useEffect(..., [crashed, yetiCaught]): the score interval is cleared and
\* set again whenever one of its dependencies changes.
ScoreIntervalEffect ==
  scoreInterval' = IF crashed' # crashed \/ yetiCaught' # yetiCaught
                   THEN SCORE_PERIOD ELSE scoreInterval

\* The yeti trigger without the yetiHasAppeared guard.
YetiTriggerEffectUnguarded ==
  IF /\ (score' # score \/ position' # position)
     /\ score' >= YETI_APPEARANCE_SCORE
  THEN /\ showYetiWarning' = TRUE
       /\ warningTimers' = Append(warningTimers, WARNING_TIME)
       /\ initialYetiPosition' = <<position', 0, YETI_SPAWN_Z>>
       /\ yetiHasAppeared' = TRUE
       /\ attackTimers' = Append(attackTimers, YETI_ATTACK_DELAY)
       /\ sinceTrigger' = 0
  ELSE UNCHANGED <<showYetiWarning, warningTimers, initialYetiPosition,
                   yetiHasAppeared, attackTimers, sinceTrigger>>

\* The yeti trigger with the attack scheduled after the warning time.
YetiTriggerEffectShortDelay ==
  IF /\ (score' # score \/ position' # position)
     /\ score' >= YETI_APPEARANCE_SCORE
     /\ ~yetiHasAppeared
  THEN /\ showYetiWarning' = TRUE
       /\ warningTimers' = Append(warningTimers, WARNING_TIME)
       /\ initialYetiPosition' = <<position', 0, YETI_SPAWN_Z>>
       /\ yetiHasAppeared' = TRUE
       /\ attackTimers' = Append(attackTimers, WARNING_TIME)
       /\ sinceTrigger' = 0
  ELSE UNCHANGED <<showYetiWarning, warningTimers, initialYetiPosition,
                   yetiHasAppeared, attackTimers, sinceTrigger>>

\* useEffect(..., [score, position]): the yeti trigger.
YetiTriggerEffect ==
  IF /\ (score' # score \/ position' # position)
     /\ score' >= YETI_APPEARANCE_SCORE
     /\ ~yetiHasAppeared
  THEN /\ showYetiWarning' = TRUE
       /\ warningTimers' = Append(warningTimers, WARNING_TIME)
       /\ initialYetiPosition' = <<position', 0, YETI_SPAWN_Z>>
       /\ yetiHasAppeared' = TRUE
       /\ attackTimers' = Append(attackTimers, YETI_ATTACK_DELAY)
       /\ sinceTrigger' = 0
  ELSE UNCHANGED <<showYetiWarning, warningTimers, initialYetiPosition,
                   yetiHasAppeared, attackTimers, sinceTrigger>>

\* ---- keyboard -----------------------------------------------------------
\* handleKeyDown that takes every key for the look-behind key.
handleKeyDownAnyKey(k) ==
  /\ keysPressed' = keysPressed \cup {k}
  /\ lookBehind' = TRUE
  /\ UNCHANGED <<componentVars, mounted, position, crashed, score, showYeti,
                 showYetiWarning, yetiAttacking, yetiCaught,
                 initialYetiPosition, obstaclePositions, yetiPosition,
                 sinceCrash, yetiHasAppeared, sinceTrigger, recoveryTimers,
                 warningTimers, attackTimers, scoreInterval,
                 collisionLogged>>

handleKeyDown(k) ==
  /\ keysPressed' = keysPressed \cup {k}
  /\ lookBehind' = IF k = "Space" THEN TRUE ELSE lookBehind
  /\ UNCHANGED <<componentVars, mounted, position, crashed, score, showYeti,
                 showYetiWarning, yetiAttacking, yetiCaught,
                 initialYetiPosition, obstaclePositions, yetiPosition,
                 sinceCrash, yetiHasAppeared, sinceTrigger, recoveryTimers,
                 warningTimers, attackTimers, scoreInterval,
                 collisionLogged>>

handleKeyUp(k) ==
  /\ keysPressed' = keysPressed \ {k}
  /\ lookBehind' = IF k = "Space" THEN FALSE ELSE lookBehind
  /\ UNCHANGED <<componentVars, mounted, position, crashed, score, showYeti,
                 showYetiWarning, yetiAttacking, yetiCaught,
                 initialYetiPosition, obstaclePositions, yetiPosition,
                 sinceCrash, yetiHasAppeared, sinceTrigger, recoveryTimers,
                 warningTimers, attackTimers, scoreInterval,
                 collisionLogged>>

\* ---- steering -----------------------------------------------------------
\* A steering step without the Math.min clamp.
StepRightUnclamped(x) == x + moveSpeed

StepRight(x) == Min(x + moveSpeed, slopeWidth \div 2 - 10)
StepLeft(x) == Max(x - moveSpeed, -(slopeWidth \div 2) + 10)

\* The two functional setPosition updates of one frame, applied in order.
Steer(x, keys) ==
  LET afterFirst == IF "ArrowLeft" \in keys \/ "a" \in keys
                    THEN StepRight(x) ELSE x
  IN IF "ArrowRight" \in keys \/ "d" \in keys
     THEN StepLeft(afterFirst) ELSE afterFirst

\* updatePosition without the crashed / yetiCaught guard.
updatePositionUnguarded ==
  /\ position' = Steer(position, keysPressed)
  /\ UNCHANGED <<componentVars, mounted, crashed, score, lookBehind,
                 showYeti, yetiAttacking, yetiCaught, keysPressed,
                 obstaclePositions, yetiPosition, sinceCrash, recoveryTimers,
                 scoreInterval, collisionLogged>>
  /\ YetiTriggerEffect

updatePosition ==
  /\ position' = IF ~crashed /\ ~yetiCaught
                 THEN Steer(position, keysPressed) ELSE position
  /\ UNCHANGED <<componentVars, mounted, crashed, score, lookBehind,
                 showYeti, yetiAttacking, yetiCaught, keysPressed,
                 obstaclePositions, yetiPosition, sinceCrash, recoveryTimers,
                 scoreInterval, collisionLogged>>
  /\ YetiTriggerEffect

\* ---- collision engine ---------------------------------------------------
\* The part of the session a collision pass may update.
Session ==
  [crashed |-> crashed, score |-> score, sinceCrash |-> sinceCrash,
   recoveryTimers |-> recoveryTimers, yetiCaught |-> yetiCaught]

\* handleCrash without setScore(0).
handleCrashKeepScore(s) ==
  IF ~yetiAttacking
  THEN [s EXCEPT !.crashed = TRUE, !.sinceCrash = 0,
                 !.recoveryTimers = Append(@, CRASH_RECOVERY_TIME)]
  ELSE s

\* handleCrash with half the recovery delay.
handleCrashShortRecovery(s) ==
  IF ~yetiAttacking
  THEN [s EXCEPT !.crashed = TRUE, !.score = 0, !.sinceCrash = 0,
                 !.recoveryTimers = Append(@, CRASH_RECOVERY_TIME \div 2)]
  ELSE s

\* handleCrash with a recovery delay of 300 ms, shorter than the grace
\* window.
handleCrashBriefRecovery(s) ==
  IF ~yetiAttacking
  THEN [s EXCEPT !.crashed = TRUE, !.score = 0, !.sinceCrash = 0,
                 !.recoveryTimers = Append(@, 3 * SCORE_PERIOD)]
  ELSE s

\* handleCrash without the yetiAttacking guard.
handleCrashUnguarded(s) ==
  [s EXCEPT !.crashed = TRUE, !.score = 0, !.sinceCrash = 0,
            !.recoveryTimers = Append(@, CRASH_RECOVERY_TIME)]

handleCrash(s) ==
  IF ~yetiAttacking
  THEN [s EXCEPT !.crashed = TRUE, !.score = 0, !.sinceCrash = 0,
                 !.recoveryTimers = Append(@, CRASH_RECOVERY_TIME)]
  ELSE s

\* handleYetiCatch that also starts handleCrash's recovery timeout.
handleYetiCatchRecovers(s) ==
  [s EXCEPT !.yetiCaught = TRUE, !.crashed = TRUE,
            !.recoveryTimers = Append(@, CRASH_RECOVERY_TIME)]

\* handleYetiCatch without setCrashed(true).
handleYetiCatchOnly(s) == [s EXCEPT !.yetiCaught = TRUE]

\* handleYetiCatch that resets the score as handleCrash does.
handleYetiCatchResetsScore(s) ==
  [s EXCEPT !.yetiCaught = TRUE, !.crashed = TRUE, !.score = 0]

handleYetiCatch(s) == [s EXCEPT !.yetiCaught = TRUE, !.crashed = TRUE]

InDangerZone(o) == o.z < 0 /\ o.z > -COLLISION_Z_THRESHOLD

\* The lateral test with <= in place of <.
CollidesInclusive(o, x) ==
  InDangerZone(o) /\ Abs(x - o.x) <= COLLISION_DISTANCE

Collides(o, x) == InDangerZone(o) /\ Abs(x - o.x) < COLLISION_DISTANCE

\* The for loop over the report: index of the obstacle at which the scan
\* breaks, 0 when it runs to the end.
RECURSIVE FirstCollision(_, _, _)
FirstCollision(positions, x, i) ==
  IF i > Len(positions) THEN 0
  ELSE IF Collides(positions[i], x) THEN i
  ELSE FirstCollision(positions, x, i + 1)

\* The yeti test without the yetiAttacking guard.
YetiCatchesAnytime(x) ==
  /\ ~yetiPosition.none
  /\ Abs(x - yetiPosition.x) < YETI_COLLISION_DISTANCE
  /\ Abs(0 - yetiPosition.z) < YETI_Z_COLLISION_DISTANCE

\* The yeti's z tested like a tree's: caught only while the yeti is still
\* behind the player (z < 0).
YetiCatchesBehind(x) ==
  /\ yetiAttacking
  /\ ~yetiPosition.none
  /\ Abs(x - yetiPosition.x) < YETI_COLLISION_DISTANCE
  /\ yetiPosition.z < 0
  /\ yetiPosition.z > -YETI_Z_COLLISION_DISTANCE

YetiCatches(x) ==
  /\ yetiAttacking
  /\ ~yetiPosition.none
  /\ Abs(x - yetiPosition.x) < YETI_COLLISION_DISTANCE
  /\ Abs(0 - yetiPosition.z) < YETI_Z_COLLISION_DISTANCE

\* The skip test without the crashed flag.
CheckSkippedGraceOnly == yetiCaught \/ sinceCrash < GRACE_WINDOW

\* A pass that is never skipped.
CheckNeverSkipped == FALSE

CheckSkipped == crashed \/ yetiCaught \/ sinceCrash < GRACE_WINDOW

\* The pass with a scan that does not break: handleCrash for every
\* qualifying obstacle of the report.
CollisionPassNoBreak(s, positions) ==
  LET n == Cardinality({i \in DOMAIN positions :
                          Collides(positions[i], position)})
      afterTrees ==
        IF n = 0 \/ yetiAttacking THEN s
        ELSE [handleCrash(s) EXCEPT
                !.recoveryTimers =
                  s.recoveryTimers \o [j \in 1..n |-> CRASH_RECOVERY_TIME]]
  IN IF YetiCatches(position) THEN handleYetiCatch(afterTrees) ELSE afterTrees

CollisionPass(s, positions) ==
  LET afterTrees == IF FirstCollision(positions, position, 1) # 0
                    THEN handleCrash(s) ELSE s
  IN IF YetiCatches(position) THEN handleYetiCatch(afterTrees) ELSE afterTrees

\* updateObstaclePositions without the early return on an empty report.
updateObstaclePositionsUnchecked(positions) ==
  LET s == IF CheckSkipped THEN Session
           ELSE CollisionPass(Session, positions)
  IN /\ obstaclePositions' = positions
     /\ crashed' = s.crashed
     /\ score' = s.score
     /\ sinceCrash' = s.sinceCrash
     /\ recoveryTimers' = s.recoveryTimers
     /\ yetiCaught' = s.yetiCaught
     /\ collisionLogged' =
          IF CheckSkipped THEN collisionLogged
          ELSE FirstCollision(positions, position, 1) # 0
     /\ UNCHANGED <<componentVars, mounted, position, lookBehind, showYeti,
                    yetiAttacking, keysPressed, yetiPosition>>
     /\ ScoreIntervalEffect
     /\ YetiTriggerEffect

updateObstaclePositions(positions) ==
  IF Len(positions) = 0
  THEN UNCHANGED vars
  ELSE LET s == IF CheckSkipped THEN Session
                ELSE CollisionPass(Session, positions)
       IN /\ obstaclePositions' = positions
          /\ crashed' = s.crashed
          /\ score' = s.score
          /\ sinceCrash' = s.sinceCrash
          /\ recoveryTimers' = s.recoveryTimers
          /\ yetiCaught' = s.yetiCaught
          /\ collisionLogged' =
               IF CheckSkipped THEN collisionLogged
               ELSE FirstCollision(positions, position, 1) # 0
          /\ UNCHANGED <<componentVars, mounted, position, lookBehind,
                         showYeti, yetiAttacking, keysPressed, yetiPosition>>
          /\ ScoreIntervalEffect
          /\ YetiTriggerEffect

handleYetiPositionUpdate(pos) ==
  /\ yetiPosition' = pos
  /\ UNCHANGED <<componentVars, mounted, position, crashed, score,
                 lookBehind, showYeti, showYetiWarning, yetiAttacking,
                 yetiCaught, initialYetiPosition, keysPressed,
                 obstaclePositions, sinceCrash, yetiHasAppeared,
                 sinceTrigger, recoveryTimers, warningTimers, attackTimers,
                 scoreInterval, collisionLogged>>

\* ---- timers -------------------------------------------------------------
\* The score interval without its crashed / yetiCaught guard.
scoreTickUnguarded ==
  /\ scoreInterval = 0
  /\ score' = score + 1
  /\ scoreInterval' = SCORE_PERIOD
  /\ UNCHANGED <<componentVars, mounted, position, crashed, lookBehind,
                 showYeti, yetiAttacking, yetiCaught, keysPressed,
                 obstaclePositions, yetiPosition, sinceCrash, recoveryTimers,
                 collisionLogged>>
  /\ YetiTriggerEffect

\* The score interval guarded by yetiCaught only.
scoreTickIgnoresCrashed ==
  /\ scoreInterval = 0
  /\ score' = IF ~yetiCaught THEN score + 1 ELSE score
  /\ scoreInterval' = SCORE_PERIOD
  /\ UNCHANGED <<componentVars, mounted, position, crashed, lookBehind,
                 showYeti, yetiAttacking, yetiCaught, keysPressed,
                 obstaclePositions, yetiPosition, sinceCrash, recoveryTimers,
                 collisionLogged>>
  /\ YetiTriggerEffect

\* setInterval(..., 100) of the score effect.
scoreTick ==
  /\ scoreInterval = 0
  /\ score' = IF ~crashed /\ ~yetiCaught THEN score + 1 ELSE score
  /\ scoreInterval' = SCORE_PERIOD
  /\ UNCHANGED <<componentVars, mounted, position, crashed, lookBehind,
                 showYeti, yetiAttacking, yetiCaught, keysPressed,
                 obstaclePositions, yetiPosition, sinceCrash, recoveryTimers,
                 collisionLogged>>
  /\ YetiTriggerEffect

\* setTimeout(() => setCrashed(false), CRASH_RECOVERY_TIME) of handleCrash.
recoveryTimeout(i) ==
  /\ recoveryTimers[i] = 0
  /\ crashed' = FALSE
  /\ recoveryTimers' = RemoveAt(recoveryTimers, i)
  /\ UNCHANGED <<componentVars, mounted, position, score, lookBehind,
                 showYeti, showYetiWarning, yetiAttacking, yetiCaught,
                 initialYetiPosition, keysPressed, obstaclePositions,
                 yetiPosition, sinceCrash, yetiHasAppeared, sinceTrigger,
                 warningTimers, attackTimers, collisionLogged>>
  /\ ScoreIntervalEffect

\* setTimeout(() => setShowYetiWarning(false), 3000) of the yeti trigger.
warningTimeout(i) ==
  /\ warningTimers[i] = 0
  /\ showYetiWarning' = FALSE
  /\ warningTimers' = RemoveAt(warningTimers, i)
  /\ UNCHANGED <<componentVars, mounted, position, crashed, score,
                 lookBehind, showYeti, yetiAttacking, yetiCaught,
                 initialYetiPosition, keysPressed, obstaclePositions,
                 yetiPosition, sinceCrash, yetiHasAppeared, sinceTrigger,
                 recoveryTimers, attackTimers, scoreInterval,
                 collisionLogged>>

\* The attack timeout that tests the score threshold again when it fires.
attackTimeoutChecksScore(i) ==
  /\ attackTimers[i] = 0
  /\ showYeti' = (showYeti \/ score >= YETI_APPEARANCE_SCORE)
  /\ yetiAttacking' = (yetiAttacking \/ score >= YETI_APPEARANCE_SCORE)
  /\ attackTimers' = RemoveAt(attackTimers, i)
  /\ UNCHANGED <<componentVars, mounted, position, crashed, score,
                 lookBehind, showYetiWarning, yetiCaught,
                 initialYetiPosition, keysPressed, obstaclePositions,
                 yetiPosition, sinceCrash, yetiHasAppeared, sinceTrigger,
                 recoveryTimers, warningTimers, scoreInterval,
                 collisionLogged>>

\* setTimeout(..., YETI_ATTACK_DELAY) of the yeti trigger.
attackTimeout(i) ==
  /\ attackTimers[i] = 0
  /\ showYeti' = TRUE
  /\ yetiAttacking' = TRUE
  /\ attackTimers' = RemoveAt(attackTimers, i)
  /\ UNCHANGED <<componentVars, mounted, position, crashed, score,
                 lookBehind, showYetiWarning, yetiCaught,
                 initialYetiPosition, keysPressed, obstaclePositions,
                 yetiPosition, sinceCrash, yetiHasAppeared, sinceTrigger,
                 recoveryTimers, warningTimers, scoreInterval,
                 collisionLogged>>

\* Time passes up to the next deadline; a timer that is due fires first.
Advance ==
  /\ NextDeadline > 0
  /\ score < MaxScore
  /\ LET dt == NextDeadline
     IN /\ scoreInterval' = scoreInterval - dt
        /\ recoveryTimers' = Elapse(recoveryTimers, dt)
        /\ warningTimers' = Elapse(warningTimers, dt)
        /\ attackTimers' = Elapse(attackTimers, dt)
        /\ sinceCrash' = Min(sinceCrash + dt, CRASH_RECOVERY_TIME)
        /\ sinceTrigger' = Min(sinceTrigger + dt, YETI_ATTACK_DELAY)
  /\ UNCHANGED <<componentVars, mounted, position, crashed, score,
                 lookBehind, showYeti, showYetiWarning, yetiAttacking,
                 yetiCaught, initialYetiPosition, keysPressed,
                 obstaclePositions, yetiPosition, yetiHasAppeared,
                 collisionLogged>>

\* ---- the session ---------------------------------------------------------
KeyDown == \E k \in SessionKeys : handleKeyDown(k)
KeyUp == \E k \in SessionKeys : handleKeyUp(k)
Frame == updatePosition /\ position' \in -MaxSteer..MaxSteer
ObstacleReport == \E p \in SessionReports : updateObstaclePositions(p)
YetiReport == \E y \in YetiReports : handleYetiPositionUpdate(y)
RecoveryFires == \E i \in 1..Len(recoveryTimers) : recoveryTimeout(i)
WarningFires == \E i \in 1..Len(warningTimers) : warningTimeout(i)
AttackFires == \E i \in 1..Len(attackTimers) : attackTimeout(i)

Next ==
  \/ KeyDown
  \/ KeyUp
  \/ Frame
  \/ ObstacleReport
  \/ YetiReport
  \/ scoreTick
  \/ RecoveryFires
  \/ WarningFires
  \/ AttackFires
  \/ Advance

Spec == Init /\ [][Next]_vars

\* ---- steering on its own ------------------------------------------------
\* Key events over every key the game reads, frames over the whole slope,
\* and obstacle reports of any length, the empty one included (so that a
\* crash can suppress the steering); no time passes.
SteerKeyDown == \E k \in AllKeys : handleKeyDown(k)
SteerKeyUp == \E k \in AllKeys : handleKeyUp(k)
SteerFrame == updatePosition
SteerReport == \E p \in Reports : updateObstaclePositions(p)

NextSteer ==
  \/ SteerKeyDown
  \/ SteerKeyUp
  \/ SteerFrame
  \/ SteerReport

SpecSteer == Init /\ [][NextSteer]_vars

\* ---- collision passes on their own ------------------------------------
\* The player stays at x = 0; the reports hold up to MaxObstacles obstacles,
\* each of them in the danger zone and either within the collision distance
\* or exactly at it, and the yeti reports are within catching range; time
\* passes as in the session.
PassObstacles == {[x |-> 0, z |-> -10], [x |-> 8, z |-> -10]}
PassReports == SeqsUpTo(PassObstacles, MaxObstacles)
PassYetiReports == [x : {0}, z : YetiZs, none : {FALSE}]

PassReport == \E p \in PassReports : updateObstaclePositions(p)
PassYetiReport == \E y \in PassYetiReports : handleYetiPositionUpdate(y)

NextPass ==
  \/ PassReport
  \/ PassYetiReport
  \/ scoreTick
  \/ RecoveryFires
  \/ WarningFires
  \/ AttackFires
  \/ Advance

SpecPass == Init /\ [][NextPass]_vars

\* ---- teardown -----------------------------------------------------------
\* The session until and after Game unmounts.  Unmounting runs the cleanups
\* of the effects: clearInterval of the score interval, cancelAnimationFrame
\* and removeEventListener of both key listeners; the children unmount with
\* it, so no report arrives afterwards.  The timeouts started by handleCrash
\* and by the yeti trigger have no cleanup: they stay pending and their
\* callbacks still run, with state updates that React drops.
TeardownReports == {<<[x |-> 0, z |-> -10]>>}

Unmount ==
  /\ mounted
  /\ mounted' = FALSE
  /\ UNCHANGED <<componentVars, position, crashed, score, lookBehind, showYeti,
                 showYetiWarning, yetiAttacking, yetiCaught,
                 initialYetiPosition, keysPressed, obstaclePositions,
                 yetiPosition, sinceCrash, yetiHasAppeared, sinceTrigger,
                 recoveryTimers, warningTimers, attackTimers, scoreInterval,
                 collisionLogged>>

\* A timeout callback that runs after the unmount.
staleTimeout(which, i) ==
  /\ ~mounted
  /\ recoveryTimers' = IF which = "recovery" THEN RemoveAt(recoveryTimers, i)
                       ELSE recoveryTimers
  /\ warningTimers' = IF which = "warning" THEN RemoveAt(warningTimers, i)
                      ELSE warningTimers
  /\ attackTimers' = IF which = "attack" THEN RemoveAt(attackTimers, i)
                     ELSE attackTimers
  /\ UNCHANGED <<componentVars, mounted, position, crashed, score,
                 lookBehind, showYeti, showYetiWarning, yetiAttacking,
                 yetiCaught, initialYetiPosition, keysPressed,
                 obstaclePositions, yetiPosition, sinceCrash,
                 yetiHasAppeared, sinceTrigger, scoreInterval,
                 collisionLogged>>

\* The timeouts still pending after the unmount, as remaining times.
StaleDeadlines ==
  Range(recoveryTimers) \cup Range(warningTimers) \cup Range(attackTimers)

\* Time passes after the unmount, up to the next pending timeout.
AdvanceUnmounted ==
  /\ ~mounted
  /\ StaleDeadlines # {}
  /\ LET dt == CHOOSE d \in StaleDeadlines : \A e \in StaleDeadlines : d <= e
     IN /\ dt > 0
        /\ recoveryTimers' = Elapse(recoveryTimers, dt)
        /\ warningTimers' = Elapse(warningTimers, dt)
        /\ attackTimers' = Elapse(attackTimers, dt)
        /\ sinceCrash' = Min(sinceCrash + dt, CRASH_RECOVERY_TIME)
        /\ sinceTrigger' = Min(sinceTrigger + dt, YETI_ATTACK_DELAY)
  /\ UNCHANGED <<componentVars, mounted, position, crashed, score,
                 lookBehind, showYeti, showYetiWarning, yetiAttacking,
                 yetiCaught, initialYetiPosition, keysPressed,
                 obstaclePositions, yetiPosition, yetiHasAppeared,
                 scoreInterval, collisionLogged>>

TeardownKeyDown == mounted /\ KeyDown
TeardownKeyUp == mounted /\ KeyUp
TeardownFrame == mounted /\ Frame
TeardownReport ==
  mounted /\ \E p \in TeardownReports : updateObstaclePositions(p)
TeardownScoreTick == mounted /\ scoreTick
TeardownRecoveryFires == mounted /\ RecoveryFires
TeardownWarningFires == mounted /\ WarningFires
TeardownAttackFires == mounted /\ AttackFires
TeardownAdvance == mounted /\ Advance
StaleRecoveryFires ==
  \E i \in 1..Len(recoveryTimers) :
    recoveryTimers[i] = 0 /\ staleTimeout("recovery", i)
StaleWarningFires ==
  \E i \in 1..Len(warningTimers) :
    warningTimers[i] = 0 /\ staleTimeout("warning", i)
StaleAttackFires ==
  \E i \in 1..Len(attackTimers) :
    attackTimers[i] = 0 /\ staleTimeout("attack", i)

NextTeardown ==
  \/ TeardownKeyDown
  \/ TeardownKeyUp
  \/ TeardownFrame
  \/ TeardownReport
  \/ TeardownScoreTick
  \/ TeardownRecoveryFires
  \/ TeardownWarningFires
  \/ TeardownAttackFires
  \/ TeardownAdvance
  \/ Unmount
  \/ StaleRecoveryFires
  \/ StaleWarningFires
  \/ StaleAttackFires
  \/ AdvanceUnmounted

SpecTeardown == Init /\ [][NextTeardown]_vars

\* ---- the obstacle tree ----------------------------------------------------
\* One ObstacleTree on its own, under either recycling policy: the uniform
\* draw of src/components/ObstacleTree.tsx and the lane draw of the later
\* version.  Math.random() is a draw k / RandomSteps; a frame's delta is d
\* sixtieths of a second; the 8 s interval may tick between any two frames.
Policies == {"uniform", "lanes"}
Draws == 0..(RandomSteps - 1)
Deltas == 1..MaxDelta

\* Math.floor(Math.random() * 6) in place of Math.floor(Math.random() * 5).
DrawXSixLanes(pol, k) ==
  IF pol = "uniform"
  THEN (k * (SLOPE_WIDTH - EDGE_MARGIN)) \div RandomSteps
         - (SLOPE_WIDTH - EDGE_MARGIN) \div 2
  ELSE ((k * (LANES + 1)) \div RandomSteps) * LANE_WIDTH - LANE_OFFSET

\* xPos of resetTree for the draw k / RandomSteps.
DrawX(pol, k) ==
  IF pol = "uniform"
  THEN (k * (SLOPE_WIDTH - EDGE_MARGIN)) \div RandomSteps
         - (SLOPE_WIDTH - EDGE_MARGIN) \div 2
  ELSE ((k * LANES) \div RandomSteps) * LANE_WIDTH - LANE_OFFSET

\* The state update carries its z to the group at the next render under the
\* uniform policy and is written to the group directly under the lane policy.
resetTree(k) ==
  /\ treeX' = DrawX(policy, k)
  /\ treeZ' = OBSTACLE_SPAWN_DISTANCE
  /\ zoneReported' = FALSE

\* The z test of updateObstaclePositions (obstacle.z < 0 && obstacle.z >
\* -COLLISION_Z_THRESHOLD) in the tree's hundredths.
InDangerBand(z) == z < 0 /\ z > -(10 * COLLISION_Z_THRESHOLD)

\* The uniform policy uses delta as it comes; the lane policy clamps it to
\* 0.05 s first.
smoothDelta(d) == IF policy = "lanes" THEN Min(d, MAX_DELTA) ELSE d
\* The advance with its sign reversed (z += in place of z -=).
moveAmountReversed(d) == -(SLOPE_SPEED * smoothDelta(d))

\* A tree that stands still, as with frames of delta 0.
moveAmountStalled(d) == 0

\* The slope ten times as fast: 4.0 per sixtieth of a second.
moveAmountTenfold(d) == 10 * SLOPE_SPEED * smoothDelta(d)

moveAmount(d) == SLOPE_SPEED * smoothDelta(d)

\* The prediction bands in reverse order: full prediction near the player.
predictionFactorInverted(distanceToPlayer) ==
  IF distanceToPlayer < 500 THEN 100
  ELSE IF distanceToPlayer < 1500 THEN 50
  ELSE 20

\* predictionFactor, in percent.
predictionFactor(distanceToPlayer) ==
  IF distanceToPlayer < 500 THEN 20
  ELSE IF distanceToPlayer < 1500 THEN 50
  ELSE 100

\* The frame with the passage test made before the advance.
treeFrameLateCheck(d) ==
  LET currentZ == treeZ - moveAmount(d)
      predictedZ ==
        currentZ - (moveAmount(d) * predictionFactor(Abs(currentZ))) \div 100
  IN /\ lastPosition' = [x |-> treeX, z |-> predictedZ]
     /\ IF treeZ < PASSED_Z
        THEN \E k \in Draws : resetTree(k)
        ELSE /\ treeX' = treeX
             /\ treeZ' = currentZ
             /\ zoneReported' = (zoneReported \/ InDangerBand(predictedZ))
     /\ UNCHANGED policy

\* useFrame callback.
treeFrame(d) ==
  LET currentZ == treeZ - moveAmount(d)
      predictedZ ==
        currentZ - (moveAmount(d) * predictionFactor(Abs(currentZ))) \div 100
  IN /\ lastPosition' = [x |-> treeX, z |-> predictedZ]
     /\ IF currentZ < PASSED_Z
        THEN \E k \in Draws : resetTree(k)
        ELSE /\ treeX' = treeX
             /\ treeZ' = currentZ
             /\ zoneReported' = (zoneReported \/ InDangerBand(predictedZ))
     /\ UNCHANGED policy

\* The interval callback without the distance test.
respawnTickAnyDistance(r) ==
  /\ IF r * 10 < 3 * RandomSteps
     THEN \E k \in Draws : resetTree(k)
     ELSE UNCHANGED <<treeX, treeZ, zoneReported>>
  /\ UNCHANGED <<policy, lastPosition>>

\* setInterval(..., 8000) callback: r is the draw of the 30% test.
respawnTick(r) ==
  /\ IF r * 10 < 3 * RandomSteps /\ treeZ > FAR_Z
     THEN \E k \in Draws : resetTree(k)
     ELSE UNCHANGED <<treeX, treeZ, zoneReported>>
  /\ UNCHANGED <<policy, lastPosition>>

GameIdle ==
  UNCHANGED <<mounted, position, crashed, score, lookBehind, showYeti,
              showYetiWarning, yetiAttacking, yetiCaught,
              initialYetiPosition, keysPressed, obstaclePositions,
              yetiPosition, sinceCrash, yetiHasAppeared, sinceTrigger,
              recoveryTimers, warningTimers, attackTimers, scoreInterval,
              collisionLogged>>

\* After the mount effect: resetTree() has run once.
InitTree ==
  /\ GameInit
  /\ policy \in Policies
  /\ \E k \in Draws : treeX = DrawX(policy, k)
  /\ treeZ = OBSTACLE_SPAWN_DISTANCE
  /\ lastPosition = [x |-> 0, z |-> OBSTACLE_SPAWN_DISTANCE]
  /\ zoneReported = FALSE
  /\ attackPhase = "APPROACH"
  /\ yetiX = 0
  /\ yetiZ = 0
  /\ targetPositionX = 0
  /\ targetPositionZ = 0
  /\ chaseSpeed = INITIAL_CHASE_SPEED
  /\ visibilityHeight = INITIAL_VISIBILITY

TreeFrame ==
  (\E d \in Deltas : treeFrame(d)) /\ GameIdle /\ UNCHANGED yetiVars
RespawnTick ==
  (\E r \in Draws : respawnTick(r)) /\ GameIdle /\ UNCHANGED yetiVars

NextTree ==
  \/ TreeFrame
  \/ RespawnTick

SpecTree == InitTree /\ [][NextTree]_vars

\* The render loop calls the useFrame callback in every frame; the interval
\* callback's draws are left to chance.
FairTree == WF_vars(TreeFrame)

SpecTreeFair == InitTree /\ [][NextTree]_vars /\ FairTree

\* ---- the yeti ---------------------------------------------------------------
\* The Yeti from its mount on, with the attack running and the player
\* steering within MaxSteer tenths of the centre line.  A frame's delta is d
\* sixtieths of a second, so that smoothDelta * 60 is Min(d, MAX_DELTA).
\* lerp is computed in integers and rounds towards its start value.
lerp(start, end, t) ==
  IF end >= start
  THEN start + ((end - start) * t) \div UNIT
  ELSE start - ((start - end) * t) \div UNIT

\* A switch without break statements: APPROACH runs on into CHASE.
nextPhaseFallThrough(phase, z) ==
  IF phase = "APPROACH" /\ z < CHASE_GATE_Z /\ z < ATTACK_GATE_Z
  THEN "ATTACK"
  ELSE IF phase = "APPROACH" /\ z < CHASE_GATE_Z THEN "CHASE"
  ELSE IF phase = "CHASE" /\ z < ATTACK_GATE_Z THEN "ATTACK"
  ELSE phase

\* The setAttackPhase calls of the switch.
nextPhase(phase, z) ==
  IF phase = "APPROACH" /\ z < CHASE_GATE_Z THEN "CHASE"
  ELSE IF phase = "CHASE" /\ z < ATTACK_GATE_Z THEN "ATTACK"
  ELSE phase

\* The chase speeds a decimal place too low (0.007, 0.01, 0.018).
nextChaseSpeedSlow(phase, cs) ==
  CASE phase = "APPROACH" -> lerp(cs, APPROACH_SPEED \div 10, SPEED_BLEND)
    [] phase = "CHASE" -> lerp(cs, CHASE_SPEED \div 10, SPEED_BLEND)
    [] phase = "ATTACK" -> ATTACK_SPEED \div 10

\* The attack speed 0.4 in place of 0.18.
nextChaseSpeedFast(phase, cs) ==
  CASE phase = "APPROACH" -> lerp(cs, APPROACH_SPEED, SPEED_BLEND)
    [] phase = "CHASE" -> lerp(cs, CHASE_SPEED, SPEED_BLEND)
    [] phase = "ATTACK" -> 400000

\* The chaseSpeed.current assignments of the switch.
nextChaseSpeed(phase, cs) ==
  CASE phase = "APPROACH" -> lerp(cs, APPROACH_SPEED, SPEED_BLEND)
    [] phase = "CHASE" -> lerp(cs, CHASE_SPEED, SPEED_BLEND)
    [] phase = "ATTACK" -> ATTACK_SPEED

\* useFrame callback.
yetiFrame(d) ==
  IF ~yetiAttacking
  THEN UNCHANGED <<yetiVars, yetiPosition>>
  ELSE LET sd == Min(d, MAX_DELTA)
           tz == CASE attackPhase = "APPROACH" ->
                        initialYetiPosition[3] + APPROACH_Z_OFFSET
                   [] attackPhase = "CHASE" -> CHASE_TARGET_Z
                   [] attackPhase = "ATTACK" -> ATTACK_TARGET_Z
           tx == CASE attackPhase = "APPROACH" -> position + APPROACH_X_OFFSET
                   [] attackPhase = "CHASE" ->
                        lerp(targetPositionX, position + CHASE_X_OFFSET,
                             CHASE_X_BLEND)
                   [] attackPhase = "ATTACK" ->
                        lerp(targetPositionX, position, ATTACK_X_BLEND)
           vh == CASE attackPhase = "APPROACH" ->
                        IF visibilityHeight < FULL_VISIBILITY
                        THEN visibilityHeight + EMERGE_RATE * sd
                        ELSE visibilityHeight
                   [] attackPhase = "CHASE" -> FULL_VISIBILITY
                   [] attackPhase = "ATTACK" -> visibilityHeight
           cs == nextChaseSpeed(attackPhase, chaseSpeed)
           x == lerp(yetiX, tx, X_BLEND * sd)
           z == lerp(yetiZ, tz, cs * sd)
       IN /\ targetPositionZ' = tz
          /\ targetPositionX' = tx
          /\ visibilityHeight' = vh
          /\ chaseSpeed' = cs
          /\ attackPhase' = nextPhase(attackPhase, yetiZ)
          /\ yetiX' = x
          /\ yetiZ' = z
          /\ yetiPosition' = [x |-> x, z |-> z, none |-> FALSE]

\* A frame of the Game's steering loop that moves the player while the yeti
\* attacks: getCurrentPlayerPosition changes with position, so the Yeti's
\* effect on [attacking, getPlayerPosition] runs again and resets the
\* lateral target to the player's x.
playerMoves(keys) ==
  /\ ~crashed /\ ~yetiCaught
  /\ position' = Steer(position, keys)
  /\ position' # position
  /\ targetPositionX' = IF yetiAttacking THEN position' ELSE targetPositionX
  /\ UNCHANGED <<attackPhase, yetiX, yetiZ, targetPositionZ, chaseSpeed,
                 visibilityHeight, yetiPosition>>

ChaseIdle ==
  UNCHANGED <<treeVars, mounted, crashed, score, lookBehind, showYeti,
              showYetiWarning, yetiAttacking, yetiCaught,
              initialYetiPosition, keysPressed, obstaclePositions,
              sinceCrash, yetiHasAppeared, sinceTrigger, recoveryTimers,
              warningTimers, attackTimers, scoreInterval, collisionLogged>>

\* The session at the moment the attack delay has run out, 5000 ms after
\* the trigger, and the Yeti has mounted at initialYetiPosition with its
\* lateral target set to the player's x by the attacking effect.
InitYeti ==
  /\ position \in -MaxSteer..MaxSteer
  /\ crashed = FALSE
  /\ score = 2 * YETI_APPEARANCE_SCORE
  /\ lookBehind = FALSE
  /\ showYeti = TRUE
  /\ showYetiWarning = FALSE
  /\ yetiAttacking = TRUE
  /\ yetiCaught = FALSE
  /\ \E x \in -MaxSteer..MaxSteer : initialYetiPosition = <<x, 0, YETI_SPAWN_Z>>
  /\ keysPressed = {}
  /\ obstaclePositions = <<[x |-> 8, z |-> -50]>>
  /\ yetiPosition = NoPosition
  /\ sinceCrash = CRASH_RECOVERY_TIME
  /\ yetiHasAppeared = TRUE
  /\ sinceTrigger = YETI_ATTACK_DELAY
  /\ mounted = TRUE
  /\ recoveryTimers = <<>>
  /\ warningTimers = <<>>
  /\ attackTimers = <<>>
  /\ scoreInterval = SCORE_PERIOD
  /\ collisionLogged = FALSE
  /\ policy = "lanes"
  /\ treeX = 0
  /\ treeZ = OBSTACLE_SPAWN_DISTANCE
  /\ lastPosition = [x |-> 0, z |-> OBSTACLE_SPAWN_DISTANCE]
  /\ zoneReported = FALSE
  /\ attackPhase = "APPROACH"
  /\ yetiX = initialYetiPosition[1]
  /\ yetiZ = initialYetiPosition[3]
  /\ targetPositionX = position
  /\ targetPositionZ = initialYetiPosition[3]
  /\ chaseSpeed = INITIAL_CHASE_SPEED
  /\ visibilityHeight = INITIAL_VISIBILITY

YetiFrame == (\E d \in Deltas : yetiFrame(d)) /\ UNCHANGED position /\ ChaseIdle
PlayerMoves ==
  /\ \E keys \in SUBSET SteerKeys : playerMoves(keys)
  /\ position' \in -MaxSteer..MaxSteer
  /\ ChaseIdle

NextYeti ==
  \/ YetiFrame
  \/ PlayerMoves

SpecYeti == InitYeti /\ [][NextYeti]_vars

\* ---- the chase ----------------------------------------------------------
\* The Yeti and the Game together from the moment the attack begins: yeti
\* frames write yetiPosition, obstacle reports run the collision pass, and
\* time passes while a recovery timeout is pending.  The attack begins
\* either with the player skiing (InitYeti) or 1900 ms after a crash, the
\* recovery timeout of that crash still 100 ms away; the yeti spawns on the
\* centre line.
\* The frames are the shortest and the longest of Deltas, and the one tree
\* of the reports is level with the player in z and out of reach in x.
ChaseDeltas == {1, MaxDelta}
ChaseReports == {<<[x |-> 8, z |-> -50]>>}

InitChaseCrashed ==
  /\ position \in -MaxSteer..MaxSteer
  /\ crashed = TRUE
  /\ score = 0
  /\ lookBehind = FALSE
  /\ showYeti = TRUE
  /\ showYetiWarning = FALSE
  /\ yetiAttacking = TRUE
  /\ yetiCaught = FALSE
  /\ initialYetiPosition = <<0, 0, YETI_SPAWN_Z>>
  /\ keysPressed = {}
  /\ obstaclePositions = <<[x |-> 8, z |-> -50]>>
  /\ yetiPosition = NoPosition
  /\ sinceCrash = CRASH_RECOVERY_TIME - SCORE_PERIOD
  /\ yetiHasAppeared = TRUE
  /\ sinceTrigger = YETI_ATTACK_DELAY
  /\ mounted = TRUE
  /\ recoveryTimers = <<SCORE_PERIOD>>
  /\ warningTimers = <<>>
  /\ attackTimers = <<>>
  /\ scoreInterval = SCORE_PERIOD
  /\ collisionLogged = TRUE
  /\ policy = "lanes"
  /\ treeX = 0
  /\ treeZ = OBSTACLE_SPAWN_DISTANCE
  /\ lastPosition = [x |-> 0, z |-> OBSTACLE_SPAWN_DISTANCE]
  /\ zoneReported = FALSE
  /\ attackPhase = "APPROACH"
  /\ yetiX = initialYetiPosition[1]
  /\ yetiZ = initialYetiPosition[3]
  /\ targetPositionX = position
  /\ targetPositionZ = initialYetiPosition[3]
  /\ chaseSpeed = INITIAL_CHASE_SPEED
  /\ visibilityHeight = INITIAL_VISIBILITY

InitChase ==
  \/ InitYeti /\ initialYetiPosition[1] = 0
  \/ InitChaseCrashed

ChaseFrame ==
  (\E d \in ChaseDeltas : yetiFrame(d)) /\ UNCHANGED position /\ ChaseIdle
ChaseReport == \E p \in ChaseReports : updateObstaclePositions(p)
ChaseAdvance == recoveryTimers # <<>> /\ Advance

NextChase ==
  \/ ChaseFrame
  \/ PlayerMoves
  \/ ChaseReport
  \/ scoreTick
  \/ RecoveryFires
  \/ ChaseAdvance

\* The frame loop keeps running, reports keep arriving and timers fire when
\* they are due.
FairChase ==
  /\ WF_vars(ChaseFrame)
  /\ WF_vars(ChaseReport)
  /\ WF_vars(scoreTick)
  /\ WF_vars(RecoveryFires)
  /\ WF_vars(ChaseAdvance)

SpecChase == InitChase /\ [][NextChase]_vars /\ FairChase

\* ---- properties ----------------------------------------------------------
\* Some obstacle of report p has predicted z strictly inside (-5, 0) and is
\* laterally closer than 0.8 to a player at x.
Qualifies(p, x) ==
  \E i \in 1..Len(p) : p[i].z > -50 /\ p[i].z < 0 /\ Abs(x - p[i].x) < 8

\* The collision check is not skipped: not crashed, not caught, and at least
\* 500 ms after the last recorded crash.
CheckRuns == ~crashed /\ ~yetiCaught /\ sinceCrash >= 500

\* C1: for every sequence of frames and held keys the player's x stays
\* within [-4, 4]; a step that would leave the interval ends on the bound.
C1_PlayerWithinSlope == position >= -40 /\ position <= 40

\* The player stands on the upper bound with only a "move right" key held:
\* every further frame is clamped.
C1_Witness == position = 40 /\ keysPressed = {"ArrowLeft"} /\ ~crashed

\* C2: a collision check that is not skipped signals a tree crash if and
\* only if some reported obstacle has predicted z strictly inside (-5, 0)
\* and |playerX - obstacleX| < 0.8.
C2_CrashSignalledIffInZone ==
  [][\A p \in SlopeReports :
       (updateObstaclePositions(p) /\ CheckRuns)
         => (collisionLogged' <=> Qualifies(p, position))]_vars

\* Player at x = 0 has just crashed into the obstacle {x: 0, z: -1}.
C2_Witness ==
  /\ collisionLogged /\ crashed /\ sinceCrash = 0 /\ position = 0
  /\ obstaclePositions = <<[x |-> 0, z |-> -10]>>

\* C3: after a tree crash the score reads 0 and stays 0 in every state until
\* crashed is cleared.
C3_ScoreZeroWhileCrashed == (crashed /\ ~yetiCaught) => score = 0

\* A crash that reset a score of at least 50, one second (ten score ticks)
\* ago, with crashed still set.
C3_Witness ==
  crashed /\ ~yetiCaught /\ yetiHasAppeared /\ sinceCrash >= 1000 /\ score = 0

\* C4: once yetiCaught is true it stays true, the score never changes again
\* and nothing clears crashed.
C4_CaughtIsTerminal ==
  [][yetiCaught => (yetiCaught' /\ score' = score /\ crashed' = crashed)]_vars

\* Caught with a positive score and the score interval due.
C4_Witness == yetiCaught /\ crashed /\ score > 0 /\ scoreInterval = 0

\* C5: in every reachable state yetiCaught implies crashed.
C5_CaughtImpliesCrashed == yetiCaught => crashed

\* Caught after an earlier tree crash (the score fell back below 50 after
\* the yeti was triggered) whose recovery timer has long fired.
C5_Witness ==
  /\ yetiCaught /\ crashed /\ score < 50
  /\ sinceCrash = 2000 /\ recoveryTimers = <<>>

\* C6: yetiCaught changes from false to true only in a step where
\* yetiAttacking is true and a yeti position has been reported.
C6_CatchOnlyWhileAttacking ==
  [][(~yetiCaught /\ yetiCaught') => (yetiAttacking /\ ~yetiPosition.none)]_vars

\* Before the attack the yeti has reported a position within catching range
\* of the player, obstacle reports arrive and the check is not skipped.
C6_Witness ==
  /\ ~yetiAttacking /\ ~yetiCaught /\ ~yetiPosition.none
  /\ Abs(position - yetiPosition.x) < 12 /\ Abs(yetiPosition.z) < 30
  /\ obstaclePositions # <<>> /\ CheckRuns

\* C7 as claimed: a tree collision detected by a check that runs sets
\* crashed, resets the score and records the crash time, in every state.
C7_AsClaimed ==
  [][\A p \in SlopeReports :
       (updateObstaclePositions(p) /\ CheckRuns /\ Qualifies(p, position))
         => (crashed' /\ score' = 0 /\ sinceCrash' = 0)]_vars

\* C7: a tree collision detected by a check that runs while the yeti is not
\* attacking sets crashed = true and score = 0, records the crash time and
\* starts the recovery timer in that same step.
C7_CrashTakesEffect ==
  [][\A p \in SlopeReports :
       (/\ updateObstaclePositions(p) /\ CheckRuns /\ Qualifies(p, position)
        /\ ~yetiAttacking)
         => (/\ crashed' /\ score' = 0 /\ sinceCrash' = 0
             /\ recoveryTimers' = Append(recoveryTimers, 2000))]_vars

\* A crash has just reset a score that had reached 50.
C7_Witness ==
  /\ crashed /\ score = 0 /\ sinceCrash = 0 /\ collisionLogged
  /\ yetiHasAppeared /\ ~yetiAttacking

\* C8: after a tree crash crashed stays true for the whole recovery delay,
\* is cleared by the recovery timer 2000 ms after the crash and not earlier,
\* and score increments resume afterwards.
C8_RecoveryAfterDelay ==
  [][/\ (crashed /\ ~crashed') => (sinceCrash = 2000 /\ ~yetiCaught)
     /\ (crashed' /\ ~yetiCaught' /\ sinceCrash' = 2000)
          => (\E i \in 1..Len(recoveryTimers') : recoveryTimers'[i] = 0)
     /\ (scoreTick /\ ~crashed /\ ~yetiCaught) => score' = score + 1]_vars

\* Recovered from a crash that happened after the score had reached 50, and
\* scoring again.
C8_Witness ==
  /\ ~crashed /\ ~yetiCaught /\ yetiHasAppeared /\ score > 0 /\ score < 50
  /\ recoveryTimers = <<>>

\* C9: at most one crash-recovery timeout is pending in every reachable
\* state.
C9_OneRecoveryInFlight == Len(recoveryTimers) <= 1

\* A recovery is pending, the grace window is over and a colliding obstacle
\* is being reported: only the crashed flag keeps a second cycle from
\* starting.
C9_Witness ==
  /\ Len(recoveryTimers) = 1 /\ crashed /\ sinceCrash >= 500
  /\ obstaclePositions # <<>> /\ Qualifies(obstaclePositions, position)

\* C10: a check that runs less than 500 ms after the last recorded crash, or
\* while crashed or yetiCaught is true, registers no outcome: it leaves
\* crashed, score, yetiCaught and the crash timestamp unchanged.
C10_SkippedCheckChangesNothing ==
  [][\A p \in SlopeReports :
       (updateObstaclePositions(p)
        /\ (crashed \/ yetiCaught \/ sinceCrash < 500))
         => UNCHANGED <<crashed, score, yetiCaught, sinceCrash,
                        recoveryTimers>>]_vars

\* Inside the grace window a colliding obstacle is reported while the yeti
\* attacks from catching range.
C10_Witness ==
  /\ sinceCrash > 0 /\ sinceCrash < 500 /\ crashed /\ yetiAttacking
  /\ obstaclePositions # <<>> /\ Qualifies(obstaclePositions, position)
  /\ ~yetiPosition.none /\ Abs(position - yetiPosition.x) < 12
  /\ Abs(yetiPosition.z) < 30

\* C11: after the yeti has been triggered, a later re-satisfaction of
\* score >= 50 is a no-op: no second warning, no second attack-delay timer,
\* and the stored spawn position is not overwritten.
C11_TriggerOnce ==
  [][yetiHasAppeared =>
       /\ yetiHasAppeared'
       /\ initialYetiPosition' = initialYetiPosition
       /\ Len(attackTimers') <= Len(attackTimers)
       /\ Len(warningTimers') <= Len(warningTimers)
       /\ (showYetiWarning' => showYetiWarning)]_vars

\* The score is back at 50 after a crash reset it: the first warning has been
\* hidden (3000 ms after the trigger an uninterrupted score would be 80) and
\* nothing is scheduled.
C11_Witness ==
  /\ yetiHasAppeared /\ score = 50 /\ ~crashed /\ ~showYetiWarning
  /\ warningTimers = <<>> /\ attackTimers = <<>>

\* C14: every change of score is +1 by the 100 ms score timer in a state
\* where neither crashed nor yetiCaught is true, or a reset to 0 by a tree
\* crash; the score is never negative.
C14_ScoreChanges ==
  [][/\ score' >= 0
     /\ score' # score =>
          \/ /\ score' = score + 1
             /\ ~crashed /\ ~yetiCaught
             /\ scoreInterval = 0 /\ scoreInterval' = 100
             /\ crashed' = crashed /\ yetiCaught' = yetiCaught
          \/ /\ score' = 0
             /\ ~crashed /\ crashed' /\ ~yetiCaught'
             /\ sinceCrash' = 0
             /\ Len(recoveryTimers') = Len(recoveryTimers) + 1]_vars

\* The first point scored after the recovery from a crash that reset a score
\* of at least 50.
C14_Witness ==
  /\ score = 1 /\ ~crashed /\ ~yetiCaught /\ yetiHasAppeared
  /\ sinceCrash = 2000

\* C16: while crashed or yetiCaught is true no step changes the player's x,
\* whatever keys are held.
C16_NoSteeringWhileDown ==
  [][(crashed \/ yetiCaught) => position' = position]_vars

\* Crashed into a tree with a steering key held and room to move, well into
\* the recovery delay.
C16_Witness ==
  /\ crashed /\ "ArrowLeft" \in keysPressed /\ position < MaxSteer
  /\ sinceCrash >= 1000

C18_EmptyReportIgnored ==
  [][/\ updateObstaclePositions(<<>>)
          => UNCHANGED <<crashed, score, yetiCaught, sinceCrash,
                         obstaclePositions, recoveryTimers, collisionLogged>>
     /\ obstaclePositions' # obstaclePositions => obstaclePositions' # <<>>]_vars

\* A state in which any non-empty report would end the session: the yeti
\* attacks from catching range and the check is not skipped.
C18_Witness ==
  /\ yetiAttacking /\ CheckRuns /\ ~yetiPosition.none
  /\ Abs(position - yetiPosition.x) < 12 /\ Abs(yetiPosition.z) < 30
  /\ obstaclePositions # <<>>

\* C15: the yeti trigger happens only in the step in which the score reaches
\* 50 for the first time; that step shows the warning and stores the spawn
\* position <<player x, 0, -120>>, which no later step changes; the yeti
\* becomes visible and attacking together, exactly 5000 ms after the trigger
\* and never before.
C15_TriggerContract ==
  [][/\ (~yetiHasAppeared /\ yetiHasAppeared')
          => /\ score < 50 /\ score' = 50
             /\ showYetiWarning'
             /\ ~showYeti' /\ ~yetiAttacking'
             /\ initialYetiPosition' = <<position', 0, -1200>>
     /\ (showYetiWarning' /\ ~showYetiWarning) => ~yetiHasAppeared
     /\ yetiHasAppeared => initialYetiPosition' = initialYetiPosition
     /\ ((yetiAttacking' /\ ~yetiAttacking) \/ (showYeti' /\ ~showYeti))
          => /\ yetiHasAppeared
             /\ sinceTrigger = 5000
             /\ showYeti' /\ yetiAttacking']_vars

\* The yeti attacks, spawned where the player was at the trigger, and the
\* player has moved since.
C15_Witness ==
  /\ yetiAttacking /\ showYeti /\ sinceTrigger = 5000
  /\ initialYetiPosition = <<0, 0, -1200>> /\ position = 1

\* C20: a collision pass has at most one outcome: it starts at most one
\* recovery timer however many obstacles of the report qualify, and a pass
\* that catches the player applies no tree crash (no score reset, no crash
\* timestamp, no recovery timer).
C20_OneOutcomePerPass ==
  [][/\ Len(recoveryTimers') <= Len(recoveryTimers) + 1
     /\ (yetiCaught' /\ ~yetiCaught)
          => /\ recoveryTimers' = recoveryTimers
             /\ score' = score
             /\ sinceCrash' = sinceCrash]_vars

\* A pass over two colliding trees that ended in the yeti's catch: the
\* collision was detected, the score is kept and no recovery is scheduled.
C20_Witness ==
  /\ yetiCaught /\ collisionLogged /\ score > 0 /\ recoveryTimers = <<>>
  /\ Len(obstaclePositions) = 2
  /\ \A i \in 1..2 : Abs(position - obstaclePositions[i].x) < 8

\* C19: after Game has unmounted nothing of the session fires or changes
\* state: no score tick, no frame, no key event, no report, and none of the
\* crash-recovery, warning-hide and attack-delay timeouts runs.
C19_AsClaimed ==
  [][~mounted =>
       /\ Len(recoveryTimers') = Len(recoveryTimers)
       /\ Len(warningTimers') = Len(warningTimers)
       /\ Len(attackTimers') = Len(attackTimers)
       /\ UNCHANGED <<position, crashed, score, lookBehind, showYeti,
                      showYetiWarning, yetiAttacking, yetiCaught,
                      keysPressed, obstaclePositions, yetiPosition,
                      scoreInterval>>]_vars

C12_PhasesMonotonic ==
  [][attackPhase' # attackPhase
       => \/ attackPhase = "APPROACH" /\ attackPhase' = "CHASE"
          \/ attackPhase = "CHASE" /\ attackPhase' = "ATTACK"]_vars

\* The yeti in its final phase, close behind a player who has moved away
\* from the spawn line.
C12_Witness ==
  /\ attackPhase = "ATTACK" /\ yetiZ > -70
  /\ position # initialYetiPosition[1]

\* C21: while yetiAttacking is true a detected tree collision is a no-op: no
\* step taken while the yeti attacks resets the score, records a crash time
\* or starts a recovery timer, and crashed is set by the yeti's catch only.
C21_NoTreeCrashWhileAttacking ==
  [][yetiAttacking =>
       /\ score' >= score
       /\ sinceCrash' >= sinceCrash
       /\ Len(recoveryTimers') <= Len(recoveryTimers)
       /\ (crashed' /\ ~crashed) => (yetiCaught' /\ ~yetiCaught)]_vars

\* A collision with the tree at the player's x was detected while the yeti
\* attacks, and the player skis on with the score intact.
C21_Witness ==
  /\ yetiAttacking /\ collisionLogged /\ ~crashed /\ ~yetiCaught
  /\ score > 50 /\ sinceCrash = 2000 /\ recoveryTimers = <<>>
  /\ obstaclePositions = <<[x |-> 0, z |-> -10]>> /\ position = 0

\* C29: the yeti's catch sets yetiCaught and crashed and nothing else: the
\* score is kept, no crash time is recorded and no recovery timer starts.
C29_CatchKeepsScore ==
  [][(yetiCaught' /\ ~yetiCaught)
       => /\ crashed'
          /\ score' = score
          /\ sinceCrash' = sinceCrash
          /\ recoveryTimers' = recoveryTimers
          /\ UNCHANGED <<position, lookBehind, showYeti, showYetiWarning,
                         yetiAttacking, initialYetiPosition, keysPressed,
                         yetiPosition, yetiHasAppeared, warningTimers,
                         attackTimers>>]_vars

\* Caught with the full score, no tree in the way and no crash on record.
C29_Witness ==
  /\ yetiCaught /\ crashed /\ score >= 100 /\ ~collisionLogged
  /\ sinceCrash = 2000 /\ recoveryTimers = <<>>

\* C30: once the yeti is triggered nothing cancels the attack: until it
\* starts exactly one attack timeout is pending, with what remains of the
\* 5000 ms; that timeout leaves only by firing, which sets yetiAttacking and
\* showYeti together whatever the score and the crash state; and neither
\* flag ever returns to false.
C30_AttackNotCancelled ==
  [][/\ (yetiHasAppeared /\ ~yetiAttacking)
          => (attackTimers = <<5000 - sinceTrigger>> /\ ~showYeti)
     /\ Len(attackTimers') < Len(attackTimers)
          => (sinceTrigger = 5000 /\ yetiAttacking' /\ showYeti')
     /\ yetiAttacking => (yetiAttacking' /\ showYeti /\ attackTimers = <<>>)
     /\ showYeti => showYeti']_vars

\* The attack has begun although the player crashed during the delay: the
\* score is 0 and the recovery from that crash is still pending.
C30_Witness ==
  /\ yetiAttacking /\ showYeti /\ crashed /\ ~yetiCaught /\ score = 0
  /\ Len(recoveryTimers) = 1 /\ sinceCrash < 2000

\* C23 as claimed (the obstacle): whatever delta a frame receives, the
\* obstacle's z decreases by at most 0.4 * 0.05 * 60 = 1.2 in that frame.
C23_AsClaimed ==
  [][treeZ' < treeZ => treeZ - treeZ' <= 120]_vars

\* C24: every frame reports the obstacle's actual x and the z after the
\* frame's advance minus advance * f, with f = 0.2 for |z| < 5, 0.5 for
\* 5 <= |z| < 15 and 1.0 otherwise; the reported z is never greater than
\* the actual z.
C24_ReportIsPrediction ==
  [][(\/ lastPosition' # lastPosition
       \/ treeZ' < treeZ
       \/ (treeZ' > treeZ /\ treeZ <= 10000)) =>
       \E d \in 1..8 :
         LET advance == 40 * d
             z == treeZ - advance
             f == IF Abs(z) < 500 THEN 20
                  ELSE IF Abs(z) < 1500 THEN 50 ELSE 100
         IN /\ treeZ' = z \/ z < -1500
            /\ lastPosition'.x = treeX
            /\ lastPosition'.z = z - (advance * f) \div 100
            /\ lastPosition'.z <= z]_vars

\* A report from the nearest band, in front of the player: one advance of
\* 0.4 and a prediction of 0.08.
C24_Witness ==
  /\ policy = "uniform" /\ treeZ < 0 /\ treeZ > -500
  /\ lastPosition = [x |-> treeX, z |-> treeZ - 8]

\* C25: the obstacle is recycled by passage exactly on a frame whose advance
\* leaves its z below -15, after that frame's report: no state between
\* frames has z below -15 or above 120, a frame recycles only in that case,
\* the report of the recycling frame is the position behind the player, and
\* with the clamped delta the z within that frame is at least -15 - 1.2.
C25_RecycledOnPassage ==
  [][/\ treeZ' >= -1500 /\ treeZ' <= 12000
     /\ (treeZ' > treeZ /\ (treeZ <= 10000 \/ lastPosition' # lastPosition))
          => \E d \in 1..8 :
               LET z == treeZ - 40 * d
               IN /\ z < -1500
                  /\ lastPosition' = [x |-> treeX, z |-> z - 40 * d]
                  /\ policy = "lanes" => z >= -1620]_vars

\* Just recycled after the deepest passage the clamped delta allows on this
\* grid: from z = -14.8 an advance of 1.2 to -16.0, reported as -17.2.
C25_Witness ==
  /\ policy = "lanes" /\ treeZ = 12000 /\ lastPosition.z = -1720

\* C26: between a spawn and the next recycle a frame changes the obstacle's
\* z only, decreasing it by the frame's advance, and leaves its x as drawn
\* at spawn; z increases and x changes only in a recycle.
C26_FrameMovesZOnly ==
  [][/\ treeZ' < treeZ
          => /\ treeX' = treeX
             /\ \E d \in 1..8 :
                  /\ treeZ - treeZ' = 40 * d
                  /\ policy = "lanes" => d <= 3
     /\ (treeZ' > treeZ \/ treeX' # treeX)
          => /\ treeZ' = 12000
             /\ treeZ > 10000 \/ lastPosition'.z < -1500]_vars

\* Half way down the slope in the first lane, as drawn at spawn.
C26_Witness ==
  /\ policy = "lanes" /\ treeX = -150 /\ treeZ < 6000 /\ treeZ > 0
  /\ lastPosition.x = -150 /\ lastPosition.z < treeZ

\* C27: the periodic tick respawns the obstacle only if its z is greater
\* than 100: from z <= 100 the obstacle's x and z change by a frame only,
\* and it is recycled only by the frame that passes the player.
C27_TickOnlyFarAhead ==
  [][treeZ <= 10000 =>
       \/ UNCHANGED <<treeX, treeZ>>
       \/ (treeX' = treeX /\ treeZ' < treeZ)
       \/ /\ treeZ' = 12000
          /\ \E d \in 1..8 :
               /\ treeZ - 40 * d < -1500
               /\ policy = "lanes" => d <= 3]_vars

\* Respawned by the tick at the last moment: the frame before it reported a
\* predicted z of exactly 100 from an actual z still above 100.
C27_Witness ==
  /\ treeZ = 12000 /\ lastPosition.z = 10000 /\ treeX # lastPosition.x

\* C22 as claimed: the yeti is in CHASE only with its z closer to the player
\* than -40 and in ATTACK only with its z closer than -7 (its z never moves
\* away from the player, so having come closer is being closer).
C22_AsClaimed ==
  /\ attackPhase = "CHASE" => yetiZ > -400
  /\ attackPhase = "ATTACK" => yetiZ > -70

\* C28 as claimed: in every frame the blend factor of the yeti's x,
\* 0.05 * s, is greater than that of its z, chaseSpeed * s, where s is
\* smoothDelta * 60 and chaseSpeed the value the frame has just stored.
C28_AsClaimed == ~yetiPosition.none => chaseSpeed < 50000

\* C28: in every frame the blend factor of the yeti's z, chaseSpeed * s, is
\* greater than that of its x, 0.05 * s: once a frame has run chaseSpeed is
\* above 0.05 and at most 0.18, in all three phases.
C28_ZBlendExceedsX ==
  ~yetiPosition.none => (chaseSpeed > 50000 /\ chaseSpeed <= 180000)

\* A frame of the final phase has run at full chase speed, with the yeti
\* still far behind.
C28_Witness ==
  /\ ~yetiPosition.none /\ attackPhase = "ATTACK" /\ chaseSpeed = 180000
  /\ yetiZ < -400

\* C31: with the frame delta clamped to 0.05 s (the lane version), a tree
\* cannot tunnel through the danger zone: whenever a frame recycles it for
\* having passed the player, some frame since its last spawn has reported a
\* predicted z strictly inside (-5, 0).
C31_NoTunnelling ==
  [][(policy = "lanes" /\ treeZ <= 10000 /\ treeZ' = 12000)
       => zoneReported]_vars

\* A clamped tree that has reported inside the zone, has left it since and
\* is recycled by its next frame whatever the delta.
C31_Witness ==
  /\ policy = "lanes"
  /\ zoneReported
  /\ lastPosition.z < -500
  /\ treeZ < -1460

\* C32: in a frame with a right-steering and a left-steering key both held,
\* the player neither crashed nor caught, the two moveSpeed steps cancel and
\* the player's x is unchanged, at every x in [-4, 4].  Only updatePosition
\* writes position.
C32_AsClaimed ==
  [][(/\ ~crashed
      /\ ~yetiCaught
      /\ keysPressed \cap {"ArrowLeft", "a"} # {}
      /\ keysPressed \cap {"ArrowRight", "d"} # {})
       => position' = position]_vars

\* C33: the yeti's z never moves away from the player and never overshoots
\* its target: from the spawn at -120 it is non-decreasing from frame to
\* frame and stays within [-120, 0.8] in every phase, the z blend factor
\* chaseSpeed * smoothDelta * 60 staying within [0, 1).
C33_ZMonotoneBounded ==
  /\ [](/\ yetiZ >= -1200
        /\ yetiZ <= 8
        /\ chaseSpeed >= 0
        /\ chaseSpeed * 3 < 1000000)
  /\ [][yetiZ' >= yetiZ]_vars

\* The yeti in its last phase, level with the player and still below the
\* target of that phase.
C33_Witness ==
  /\ attackPhase = "ATTACK"
  /\ yetiZ >= 0
  /\ yetiZ < 8
  /\ yetiPosition.z = yetiZ

C35_RecycledForever ==
  /\ []<><<treeZ # 12000 /\ treeZ' = 12000>>_vars
  /\ (treeZ < 0 ~> treeZ = 12000)

\* A tree of the uniform version back at the spawn distance, its last
\* report from behind the player and past the recycling line.
C35_Witness ==
  /\ policy = "uniform"
  /\ treeZ = 12000
  /\ lastPosition.z < -1500
  /\ ~zoneReported

\* C36: with state updates applied atomically, the 500 ms grace window never
\* suppresses a check that the crashed flag would have allowed: whenever
\* less than 500 ms have passed since lastCrashTime, crashed is true.
C36_GraceImpliesCrashed == sinceCrash < 500 => crashed

\* Inside the grace window of a tree crash, 100 ms or more after it.
C36_Witness ==
  /\ crashed
  /\ ~yetiCaught
  /\ sinceCrash > 0
  /\ sinceCrash < 500
  /\ Len(recoveryTimers) = 1

====
